---- MODULE Spec2Model ----
(***************************************************************************)
(* Model of the post-VAD segment-splitting policy of silero_vs_pyannote:   *)
(* get_split_audio (pyannote_audio_split.py), get_split_audio_using_silero *)
(* (silero_audio_split.py), process_non_mute_segments and                  *)
(* chop_long_segment_duration (utils.py).                                  *)
(*                                                                         *)
(* Numbers.  The code computes on Python floats.  The model is exact       *)
(* fixed-point arithmetic: a value x (seconds, milliseconds or frames) is  *)
(* the integer x * TPS.  One tick is half a sample frame at 16 kHz, so     *)
(* every frame index, every VAD boundary the model draws and every chop    *)
(* boundary is an integer number of ticks (ExactHalving checks it).        *)
(***************************************************************************)
EXTENDS Integers, Sequences, FiniteSets

\* ---------------------------------------------------------------- bounds
GridSec == 1       \* seconds between two candidate boundaries
MaxT == 9          \* last candidate boundary, in seconds
MaxSpans == 2      \* speech spans yielded by the VAD in one run
MaxRuns == 2       \* non-silent runs librosa returns for one span

\* VAD and run boundaries are drawn from (0..GridMax) * GridSec seconds
GridMax == MaxT \div GridSec

\* ------------------------------------------------------------- constants
\* the rate silero hard-codes; get_audio hands both backends audio that
\* convert_to_16K resampled to it, so torchaudio.load reports it as well
SILERO_SR == 16000
TPS == 2 * SILERO_SR
AUDIO_SEG_UPPER_LIMIT == 8
AUDIO_SEG_LOWER_LIMIT == 2

\* lower_limit / upper_limit of a run: the defaults, a band with
\* lower_limit = upper_limit / 2 and a band with lower_limit > upper_limit / 2
Bands ==
  { <<AUDIO_SEG_LOWER_LIMIT, AUDIO_SEG_UPPER_LIMIT>>, <<2, 4>>, <<3, 4>> }

\* sub-frame part (in ticks) of a pyannote span start: pyannote boundaries
\* are float seconds and need not fall on a sample frame
Jitter == {0, 1}

Backends == {"pyannote", "silero"}

\* ------------------------------------------------------ unit conversions
sec_to_millis(seconds) == seconds * 1000

\* frame / sampling_rate (whole and fractional seconds taken separately)
frame_to_sec(frame, sampling_rate) ==
  (frame \div sampling_rate) * TPS
    + ((frame % sampling_rate) * TPS) \div sampling_rate

\* Python int() on a non-negative fixed-point value
IntOf(x) == x \div TPS

\* int(sec_to_frame(sec, sr)): sec * sr truncated to a frame index (the
\* product is taken on the whole and the fractional seconds separately)
int_sec_to_frame(sec, sr) ==
  (sec \div TPS) * sr + ((sec % TPS) * sr) \div TPS

\* ----------------------------------------------------------- segment key
RECURSIVE Digits(_)
Digits(n) == IF n < 10 THEN <<n>> ELSE Append(Digits(n \div 10), n % 10)

\* f"{counter:04}"
Fmt04(n) ==
  LET d == Digits(n)
  IN IF Len(d) < 4 THEN [i \in 1..(4 - Len(d)) |-> 0] \o d ELSE d

SegmentKey(full_audio_id, counter, start_ms, end_ms) ==
  <<full_audio_id, Fmt04(counter), IntOf(start_ms), IntOf(end_ms)>>

\* original_audio_segment[start_ms:end_ms]
Slice(start_ms, end_ms) == [start_ms |-> start_ms, end_ms |-> end_ms]

\* split_audio[segment_key] = segment on an insertion-ordered dict
DictPut(d, k, v) ==
  IF \E i \in 1..Len(d) : d[i].key = k
    THEN [i \in 1..Len(d) |-> IF d[i].key = k THEN [key |-> k, val |-> v] ELSE d[i]]
    ELSE Append(d, [key |-> k, val |-> v])

\* mutant: the increment is forgotten
IncrCounter_Stuck(c) == c

IncrCounter(c) == c + 1

\* ------------------------------------------------------------ classifier
\* mutants: the upper test is dropped / both tests are strict / the lower
\* test is dropped
InBand_NoUpper(d, lower, upper) == lower <= d

InBand_Strict(d, lower, upper) == lower < d /\ d < upper

InBand_NoLower(d, lower, upper) == d <= upper

InBand(d, lower, upper) == lower <= d /\ d <= upper

TooLong(d, lower, upper) == ~InBand(d, lower, upper) /\ d > upper

\* --------------------------------------------------------------- chopper
\* mutant: the first division is by three
FirstChop_Third(segment_split_duration) == segment_split_duration \div 3

FirstChop(segment_split_duration) == segment_split_duration \div 2

\* mutant: the loop also runs on equality
HalveMore_Geq(chop_length, upper) == chop_length >= upper

HalveMore(chop_length, upper) == chop_length > upper

\* mutant: the loop quarters
HalfOf_Quarter(chop_length) == chop_length \div 4

HalfOf(chop_length) == chop_length \div 2

\* mutant: range() runs one past the count
ChopCount_Plus1(segment_split_duration, chop_length) ==
  segment_split_duration \div chop_length + 1

ChopCount(segment_split_duration, chop_length) ==
  segment_split_duration \div chop_length

ChopStart(vad_start, split_start, sampling_rate, chop_length, chop_index) ==
  sec_to_millis(vad_start + frame_to_sec(split_start, sampling_rate)
                + chop_length * chop_index)

ChopEnd(vad_start, split_start, sampling_rate, chop_length, chop_index) ==
  sec_to_millis(vad_start + frame_to_sec(split_start, sampling_rate)
                + chop_length * (chop_index + 1))

\* ----------------------------------------------------------------- state
VARIABLES
  pc,            \* position in get_split_audio / its callees
  backend,       \* which entry point runs
  lower_limit, upper_limit,      \* in ticks
  temp_file,     \* temp_audio_in_memory.wav exists
  split_audio,   \* the output dict, in insertion order
  counter,
  vad_span,      \* [start, end] of the span being processed, in ticks
  slice_len,     \* length in frames of the ndarray slice given to librosa
  spans_done, t_last,            \* VAD iterator: spans yielded, last end (grid)
  runs_done, r_last,             \* librosa iterator: runs yielded, last end
  split_start, split_end,        \* the run being processed, in frames
  segment_split_duration, chop_length, chop_index,
  halvings,      \* history: divisions by two done on chop_length
  emitted,       \* history: one record per segment stored, in order
  span_log       \* history: one record per span the VAD yielded

vars == <<pc, backend, lower_limit, upper_limit, temp_file, split_audio,
          counter, vad_span, slice_len, spans_done, t_last, runs_done,
          r_last, split_start, split_end, segment_split_duration,
          chop_length, chop_index, halvings, emitted, span_log>>

NoSpan == [start |-> 0, end |-> 0, start_frame |-> 0, end_frame |-> 0]

Init ==
  /\ pc = "start"
  /\ backend \in Backends
  /\ \E b \in Bands : lower_limit = b[1] * TPS /\ upper_limit = b[2] * TPS
  /\ temp_file = FALSE
  /\ split_audio = <<>>
  /\ counter = 0
  /\ vad_span = NoSpan
  /\ slice_len = 0
  /\ spans_done = 0 /\ t_last = 0
  /\ runs_done = 0 /\ r_last = 0
  /\ split_start = 0 /\ split_end = 0
  /\ segment_split_duration = 0 /\ chop_length = 0 /\ chop_index = 0
  /\ halvings = 0
  /\ emitted = <<>>
  /\ span_log = <<>>

loopVars == <<vad_span, slice_len, spans_done, t_last, span_log>>
runVars == <<runs_done, r_last, split_start, split_end>>
chopVars == <<segment_split_duration, chop_length, chop_index, halvings>>
outVars == <<split_audio, counter, emitted>>
cfgVars == <<backend, lower_limit, upper_limit>>

\* ------------------------------------------------- prologue of the run
\* with open(temp_audio_file, "wb") as f: f.write(audio_data)
WriteTemp ==
  /\ pc = "start"
  /\ temp_file' = TRUE
  /\ pc' = "written"
  /\ UNCHANGED <<cfgVars, outVars, loopVars, runVars, chopVars>>

\* initialize_vad_pipeline() / initialize_silero_vad() returns
InitVad ==
  /\ pc = "written"
  /\ pc' = "vad_ready"
  /\ UNCHANGED <<cfgVars, temp_file, outVars, loopVars, runVars, chopVars>>

\* ... or raises: silero re-raises, pyannote's local fallback load raises
InitVadFail ==
  /\ pc = "written"
  /\ pc' = "failed"
  /\ UNCHANGED <<cfgVars, temp_file, outVars, loopVars, runVars, chopVars>>

\* pipeline(temp_audio_file) / read_audio + get_speech_timestamps
Detect ==
  /\ pc = "vad_ready"
  /\ pc' = "detected"
  /\ UNCHANGED <<cfgVars, temp_file, outVars, loopVars, runVars, chopVars>>

DetectFail ==
  /\ pc = "vad_ready"
  /\ pc' = "failed"
  /\ UNCHANGED <<cfgVars, temp_file, outVars, loopVars, runVars, chopVars>>

\* AudioSegment.from_file, torchaudio.load, counter = 1
Decode ==
  /\ pc = "detected"
  /\ counter' = 1
  /\ pc' = "loop"
  /\ UNCHANGED <<cfgVars, temp_file, split_audio, emitted, loopVars,
                 runVars, chopVars>>

DecodeFail ==
  /\ pc = "detected"
  /\ pc' = "failed"
  /\ UNCHANGED <<cfgVars, temp_file, outVars, loopVars, runVars, chopVars>>

\* ------------------------------------------------------ the span source
\* The spans the VAD can yield next: ordered, after the previous span.
\* pyannote: float seconds (whole seconds plus a sub-frame part);
\* silero: frame indices start_frame, end_frame turned to seconds by /16000.
\* A span with end <= start is included: the classifier has to discard it.
\* start_frame / end_frame are ts["start"] / ts["end"] (silero only).
SpanOf(b, s, e, j) ==
  IF b = "silero"
    THEN [start |-> frame_to_sec(s * GridSec * SILERO_SR, SILERO_SR),
          end |-> frame_to_sec(e * GridSec * SILERO_SR, SILERO_SR),
          start_frame |-> s * GridSec * SILERO_SR,
          end_frame |-> e * GridSec * SILERO_SR]
    ELSE [start |-> s * GridSec * TPS + j, end |-> e * GridSec * TPS,
          start_frame |-> 0, end_frame |-> 0]

\* vad_span_length (pyannote) / segment_duration (silero)
SpanLength(b, span) ==
  IF b = "silero"
    THEN frame_to_sec(span.end_frame - span.start_frame, SILERO_SR)
    ELSE span.end - span.start

\* frames of the ndarray slice handed to librosa.effects.split
SliceLen(b, span, sampling_rate) ==
  LET lo == IF b = "silero" THEN span.start_frame
            ELSE int_sec_to_frame(span.start, sampling_rate)
      hi == IF b = "silero" THEN span.end_frame
            ELSE int_sec_to_frame(span.end, sampling_rate)
  IN IF hi > lo THEN hi - lo ELSE 0

Emit(start_ms, end_ms, kind) ==
  /\ split_audio' = DictPut(split_audio,
                            SegmentKey("audio", counter, start_ms, end_ms),
                            Slice(start_ms, end_ms))
  /\ counter' = IncrCounter(counter)
  /\ emitted' = Append(emitted,
       [start_ms |-> start_ms, end_ms |-> end_ms, kind |-> kind,
        span |-> IF kind = "span" THEN spans_done + 1 ELSE spans_done,
        run |-> IF kind = "span" THEN 0 ELSE runs_done,
        chop |-> IF kind = "chop" THEN chop_index ELSE 0,
        last |-> kind = "chop"
                 /\ chop_index + 1 = ChopCount(segment_split_duration, chop_length)])

\* one iteration of `for vad_span in ...` for the span sp
Yield(sp, s, e) ==
  /\ vad_span' = sp
  /\ spans_done' = spans_done + 1
  /\ t_last' = IF e > s THEN e ELSE s
  /\ span_log' = Append(span_log,
       [start |-> sp.start, end |-> sp.end, nruns |-> 0, inside |-> TRUE])

\* the (start second, end second, sub-frame part) the VAD may yield next
SpanCandidates ==
  { c \in (t_last..GridMax) \X (0..GridMax) \X Jitter :
      /\ pc = "loop"
      /\ spans_done < MaxSpans
      /\ c[2] + 1 >= c[1]
      /\ backend = "silero" => c[3] = 0 }

AcceptSpan ==
  \E c \in SpanCandidates :
    LET sp == SpanOf(backend, c[1], c[2], c[3])
        s == c[1]
        e == c[2]
    IN
    /\ InBand(SpanLength(backend, sp), lower_limit, upper_limit)
    /\ Yield(sp, s, e)
    /\ Emit(sec_to_millis(sp.start), sec_to_millis(sp.end), "span")
    /\ slice_len' = slice_len
    /\ pc' = "loop"
    /\ UNCHANGED <<cfgVars, temp_file, runVars, chopVars>>

DiscardSpan ==
  \E c \in SpanCandidates :
    LET sp == SpanOf(backend, c[1], c[2], c[3])
        s == c[1]
        e == c[2]
    IN
    /\ ~InBand(SpanLength(backend, sp), lower_limit, upper_limit)
    /\ ~TooLong(SpanLength(backend, sp), lower_limit, upper_limit)
    /\ Yield(sp, s, e)
    /\ slice_len' = slice_len
    /\ pc' = "loop"
    /\ UNCHANGED <<cfgVars, temp_file, outVars, runVars, chopVars>>

\* librosa.effects.split returns; process_non_mute_segments is entered
SubdivideSpan ==
  \E c \in SpanCandidates :
    LET sp == SpanOf(backend, c[1], c[2], c[3])
        s == c[1]
        e == c[2]
    IN
    /\ TooLong(SpanLength(backend, sp), lower_limit, upper_limit)
    /\ Yield(sp, s, e)
    /\ slice_len' = SliceLen(backend, sp, SILERO_SR)
    /\ runs_done' = 0 /\ r_last' = 0
    /\ pc' = "runs"
    /\ UNCHANGED <<cfgVars, temp_file, outVars, split_start, split_end,
                   chopVars>>

\* librosa.effects.split raises
SplitFail ==
  \E c \in SpanCandidates :
    LET sp == SpanOf(backend, c[1], c[2], c[3])
        s == c[1]
        e == c[2]
    IN
    /\ TooLong(SpanLength(backend, sp), lower_limit, upper_limit)
    /\ Yield(sp, s, e)
    /\ slice_len' = SliceLen(backend, sp, SILERO_SR)
    /\ pc' = "failed"
    /\ UNCHANGED <<cfgVars, temp_file, outVars, runVars, chopVars>>

\* os.remove(temp_audio_file); return split_audio
Finish ==
  /\ pc = "loop"
  /\ temp_file' = FALSE
  /\ pc' = "done"
  /\ UNCHANGED <<cfgVars, outVars, loopVars, runVars, chopVars>>

\* ------------------------------------------- process_non_mute_segments
\* mutant: the span start is not added
RunStartMs_NoBase(span, f, sampling_rate) ==
  sec_to_millis(frame_to_sec(f, sampling_rate))

RunStartMs(span, f, sampling_rate) ==
  sec_to_millis(span.start + frame_to_sec(f, sampling_rate))

RunDuration(span, f0, f1, sampling_rate) ==
  (span.start + frame_to_sec(f1, sampling_rate))
    - (span.start + frame_to_sec(f0, sampling_rate))

\* a run lies inside the span when its end frame is within the span length
RunInside(span, f1, sampling_rate) ==
  frame_to_sec(f1, sampling_rate) <= span.end - span.start

\* one iteration of `for split_start, split_end in non_mute_segment_splits`
\* for the run (f0, f1): ordered, disjoint, inside the ndarray slice
TakeRun(f0, f1) ==
  /\ split_start' = f0
  /\ split_end' = f1
  /\ runs_done' = runs_done + 1
  /\ r_last' = f1
  /\ span_log' = [span_log EXCEPT ![Len(span_log)] =
       [@ EXCEPT !.nruns = @ + 1,
                 !.inside = @ /\ RunInside(vad_span, f1, SILERO_SR)]]

\* the (start frame, end frame) librosa may yield next
RunCandidates ==
  { <<x[1] * GridSec * SILERO_SR, x[2] * GridSec * SILERO_SR>> : x \in
      { y \in (0..GridMax) \X (0..GridMax) :
          /\ pc = "runs"
          /\ runs_done < MaxRuns
          /\ y[1] < y[2]
          /\ y[1] * GridSec * SILERO_SR >= r_last
          /\ y[2] * GridSec * SILERO_SR <= slice_len } }

AcceptRun ==
  \E r \in RunCandidates :
    LET f0 == r[1]
        f1 == r[2]
    IN
    /\ InBand(RunDuration(vad_span, f0, f1, SILERO_SR), lower_limit, upper_limit)
    /\ TakeRun(f0, f1)
    /\ Emit(RunStartMs(vad_span, f0, SILERO_SR),
            RunStartMs(vad_span, f1, SILERO_SR), "run")
    /\ pc' = "runs"
    /\ UNCHANGED <<cfgVars, temp_file, vad_span, slice_len, spans_done,
                   t_last, chopVars>>

DiscardRun ==
  \E r \in RunCandidates :
    LET f0 == r[1]
        f1 == r[2]
    IN
    /\ ~InBand(RunDuration(vad_span, f0, f1, SILERO_SR), lower_limit, upper_limit)
    /\ ~TooLong(RunDuration(vad_span, f0, f1, SILERO_SR), lower_limit, upper_limit)
    /\ TakeRun(f0, f1)
    /\ pc' = "runs"
    /\ UNCHANGED <<cfgVars, temp_file, outVars, vad_span, slice_len,
                   spans_done, t_last, chopVars>>

\* chop_long_segment_duration is called: chop_length = duration / 2
ChopRun ==
  \E r \in RunCandidates :
    LET f0 == r[1]
        f1 == r[2]
    IN
    /\ TooLong(RunDuration(vad_span, f0, f1, SILERO_SR), lower_limit, upper_limit)
    /\ TakeRun(f0, f1)
    /\ segment_split_duration' = RunDuration(vad_span, f0, f1, SILERO_SR)
    /\ chop_length' = FirstChop(RunDuration(vad_span, f0, f1, SILERO_SR))
    /\ halvings' = 1
    /\ chop_index' = 0
    /\ pc' = "halve"
    /\ UNCHANGED <<cfgVars, temp_file, outVars, vad_span, slice_len,
                   spans_done, t_last>>

\* the run list is exhausted: return counter
EndRuns ==
  /\ pc = "runs"
  /\ pc' = "loop"
  /\ runs_done' = 0 /\ r_last' = 0 /\ split_start' = 0 /\ split_end' = 0
  /\ UNCHANGED <<cfgVars, temp_file, outVars, loopVars, chopVars>>

\* ------------------------------------------ chop_long_segment_duration
\* while chop_length > upper_limit: chop_length = chop_length / 2
Halve ==
  /\ pc = "halve"
  /\ HalveMore(chop_length, upper_limit)
  /\ chop_length' = HalfOf(chop_length)
  /\ halvings' = halvings + 1
  /\ UNCHANGED <<pc, cfgVars, temp_file, outVars, loopVars, runVars,
                 segment_split_duration, chop_index>>

HalveExit ==
  /\ pc = "halve"
  /\ ~HalveMore(chop_length, upper_limit)
  /\ pc' = "chop"
  /\ UNCHANGED <<cfgVars, temp_file, outVars, loopVars, runVars, chopVars>>

\* one iteration of `for chop_index in range(int(duration / chop_length))`
EmitChop ==
  /\ pc = "chop"
  /\ chop_index < ChopCount(segment_split_duration, chop_length)
  /\ Emit(ChopStart(vad_span.start, split_start, SILERO_SR, chop_length, chop_index),
          ChopEnd(vad_span.start, split_start, SILERO_SR, chop_length, chop_index),
          "chop")
  /\ chop_index' = chop_index + 1
  /\ UNCHANGED <<pc, cfgVars, temp_file, loopVars, runVars,
                 segment_split_duration, chop_length, halvings>>

\* return counter
ChopReturn ==
  /\ pc = "chop"
  /\ ~(chop_index < ChopCount(segment_split_duration, chop_length))
  /\ pc' = "runs"
  /\ segment_split_duration' = 0 /\ chop_length' = 0 /\ chop_index' = 0
  /\ halvings' = 0
  /\ UNCHANGED <<cfgVars, temp_file, outVars, loopVars, runVars>>

Next ==
  \/ WriteTemp \/ InitVad \/ InitVadFail \/ Detect \/ DetectFail
  \/ Decode \/ DecodeFail
  \/ AcceptSpan \/ DiscardSpan \/ SubdivideSpan \/ SplitFail \/ Finish
  \/ AcceptRun \/ DiscardRun \/ ChopRun \/ EndRuns
  \/ Halve \/ HalveExit \/ EmitChop \/ ChopReturn

Spec == Init /\ [][Next]_vars

\* ======================================================== verification
\* helpers of the properties below
N == Len(split_audio)

InLoop == pc \in {"loop", "runs", "halve", "chop", "done"}

\* (end_ms - start_ms) of the i-th stored segment, in fixed-point ms
DurMs(i) == split_audio[i].val.end_ms - split_audio[i].val.start_ms

Kind(i) == IF i <= Len(emitted) THEN emitted[i].kind ELSE "none"

Ms(sec) == 1000 * sec

RECURSIVE Pow2(_)
Pow2(k) == IF k = 0 THEN 1 ELSE 2 * Pow2(k - 1)

\* ceil(log2(d / u)) for d > u > 0
CeilLog2(d, u) == CHOOSE k \in 0..31 :
  /\ d <= u * Pow2(k)
  /\ \A m \in 0..(k - 1) : d > u * Pow2(m)

\* value of the decimal digit string ds
RECURSIVE DigitsValue(_)
DigitsValue(ds) ==
  IF Len(ds) = 0 THEN 0
  ELSE 10 * DigitsValue(SubSeq(ds, 1, Len(ds) - 1)) + ds[Len(ds)]

\* the fixed-point arithmetic is exact: no halving ever rounds
ExactHalving ==
  pc \in {"halve", "chop"} =>
    chop_length * Pow2(halvings) = segment_split_duration

C2_KeysCountEmissions ==
  InLoop =>
    /\ N = counter - 1
    /\ Len(emitted) = N
    /\ \A i \in 1..N : DigitsValue(split_audio[i].key[2]) = i
    /\ \A i, j \in 1..N : i # j => split_audio[i].key # split_audio[j].key

\* an accepted span, then an accepted run and chops of a later span
C2_Witness ==
  /\ InLoop
  /\ N >= 4
  /\ \E i, j, k \in 1..N :
       Kind(i) = "span" /\ Kind(j) = "run" /\ Kind(k) = "chop"

\* -------------------------------------------------------------------- C3
\* C3: an iteration of the span loop for a span with
\* lower_limit <= end - start <= upper_limit stores exactly one segment,
\* with bounds 1000 * start and 1000 * end, and adds one to the counter.
C3_Step ==
  (/\ spans_done' = spans_done + 1
   /\ lower_limit <= vad_span'.end - vad_span'.start
   /\ vad_span'.end - vad_span'.start <= upper_limit)
  => /\ Len(split_audio') = N + 1
     /\ SubSeq(split_audio', 1, N) = split_audio
     /\ split_audio'[N + 1].val =
          [start_ms |-> Ms(vad_span'.start), end_ms |-> Ms(vad_span'.end)]
     /\ counter' = counter + 1
     /\ pc' = "loop"

C3_AcceptOne == [][C3_Step]_vars

\* both kinds of span were accepted whole: one on a frame boundary and
\* one (pyannote) that starts between two frames
C3_Witness ==
  /\ pc = "loop"
  /\ N = 2
  /\ Kind(1) = "span" /\ Kind(2) = "span"
  /\ split_audio[2].val.start_ms = Ms(vad_span.start)
  /\ split_audio[2].val.end_ms = Ms(vad_span.end)
  /\ vad_span.start % 2 = 1

\* silero accepted a span whole
C3_WitnessSilero ==
  /\ backend = "silero"
  /\ pc = "loop"
  /\ N = 1
  /\ Kind(1) = "span"

\* -------------------------------------------------------------------- C4
\* C4: an iteration of the span loop for a span shorter than lower_limit
\* (end <= start included) changes neither the dict nor the counter and
\* goes on with the loop.
C4_Step ==
  (/\ spans_done' = spans_done + 1
   /\ vad_span'.end - vad_span'.start < lower_limit)
  => /\ split_audio' = split_audio
     /\ counter' = counter
     /\ pc' = "loop"

C4_DiscardShort == [][C4_Step]_vars

\* a span with end < start was dropped and the next span got key 0001
C4_Witness ==
  /\ pc = "loop"
  /\ spans_done = 2
  /\ span_log[1].end < span_log[1].start
  /\ N = 1
  /\ emitted[1].span = 2
  /\ split_audio[1].key[2] = <<0, 0, 0, 1>>

\* -------------------------------------------------------------------- C5
SegsOf(k) == { i \in 1..N : Kind(i) # "none" /\ emitted[i].span = k }

RECURSIVE SumDur(_)
SumDur(S) ==
  IF S = {} THEN 0
  ELSE LET i == CHOOSE x \in S : TRUE IN DurMs(i) + SumDur(S \ {i})

\* C5: for a span longer than upper_limit whose runs all lie inside the
\* span, the stored segments of the span add up to at most the span
\* duration, lie inside the span and do not overlap one another.
C5_SubdivisionInsideSpan ==
  \A k \in 1..Len(span_log) :
    (/\ span_log[k].end - span_log[k].start > upper_limit
     /\ span_log[k].inside)
    => /\ SumDur(SegsOf(k)) <= Ms(span_log[k].end - span_log[k].start)
       /\ \A i \in SegsOf(k) :
            /\ Ms(span_log[k].start) <= split_audio[i].val.start_ms
            /\ split_audio[i].val.end_ms <= Ms(span_log[k].end)
       /\ \A i, j \in SegsOf(k) :
            i < j => split_audio[i].val.end_ms <= split_audio[j].val.start_ms

\* a span with a discarded run and a chopped run: less than the span is
\* stored, the silence and the short run are dropped
C5_Witness ==
  /\ pc = "loop"
  /\ \E k \in 1..Len(span_log) :
       /\ span_log[k].end - span_log[k].start > upper_limit
       /\ span_log[k].inside
       /\ span_log[k].nruns = 2
       /\ Cardinality(SegsOf(k)) >= 2
       /\ SumDur(SegsOf(k)) < Ms(span_log[k].end - span_log[k].start)
       /\ \E i \in SegsOf(k) : Kind(i) = "chop"

\* -------------------------------------------------------------------- C6
\* C6: the halving loop does at most ceil(log2(D / upper_limit)) halvings
\* (so it terminates), it leaves with chop_length <= upper_limit, and
\* every chop stored by the call is at most upper_limit long.
C6_HalvingBound ==
  pc \in {"halve", "chop"} =>
    /\ segment_split_duration > upper_limit
    /\ halvings <= CeilLog2(segment_split_duration, upper_limit)
    /\ pc = "chop" =>
         /\ chop_length <= upper_limit
         /\ \A i \in (N - chop_index + 1)..N : DurMs(i) <= Ms(upper_limit)

\* the loop body ran (two halvings in all) and a chop was stored
C6_Witness ==
  /\ pc = "chop"
  /\ halvings = 2
  /\ chop_index >= 1

\* -------------------------------------------------------------------- C8
RunLen == (split_end' - split_start') * (TPS \div SILERO_SR)

\* C8 (steps): an iteration of the run loop stores exactly one segment with
\* bounds span.start + frame / sampling_rate when the run is in the band,
\* changes nothing when it is shorter than lower_limit, and enters the
\* chopper without storing the run when it is longer than upper_limit.
C8_Step ==
  (runs_done' = runs_done + 1) =>
    /\ (lower_limit <= RunLen /\ RunLen <= upper_limit) =>
         /\ Len(split_audio') = N + 1
         /\ SubSeq(split_audio', 1, N) = split_audio
         /\ split_audio'[N + 1].val =
              [start_ms |-> Ms(vad_span.start
                               + split_start' * (TPS \div SILERO_SR)),
               end_ms |-> Ms(vad_span.start
                             + split_end' * (TPS \div SILERO_SR))]
         /\ counter' = counter + 1
         /\ pc' = "runs"
    /\ RunLen < lower_limit =>
         /\ split_audio' = split_audio
         /\ counter' = counter
         /\ pc' = "runs"
    /\ RunLen > upper_limit =>
         /\ split_audio' = split_audio
         /\ counter' = counter
         /\ pc' = "halve"

\* C8 (states): no run longer than upper_limit is stored whole, and a
\* subdivided span without runs has no segment.
C8_State ==
  /\ \A i \in 1..N : Kind(i) = "run" => DurMs(i) <= Ms(upper_limit)
  /\ \A k \in 1..Len(span_log) :
       (/\ span_log[k].end - span_log[k].start > upper_limit
        /\ span_log[k].nruns = 0) => SegsOf(k) = {}

\* C8: process_non_mute_segments applies the accept / discard / further
\* split decision of the span loop to every non-silent run.
C8_RunsClassified == [][C8_Step]_vars /\ []C8_State

\* a span that does not start at 0 gave a discarded run and an accepted run
C8_Witness ==
  /\ pc = "loop"
  /\ spans_done = 1
  /\ span_log[1].start > 0
  /\ span_log[1].nruns = 2
  /\ Cardinality(SegsOf(1)) = 1
  /\ Kind(1) = "run"

\* -------------------------------------------------------------------- C9
ChopBase == vad_span.start + split_start * (TPS \div SILERO_SR)

\* C9: a call of the chopper stores 2^k (k >= 1) chops of length D / 2^k;
\* chop i covers [B + i * chop_length, B + (i + 1) * chop_length], so the
\* chops are consecutive, start at B and end at B + D: nothing is dropped.
C9_ChopsTile ==
  pc = "chop" =>
    /\ halvings >= 1
    /\ chop_length * Pow2(halvings) = segment_split_duration
    /\ ChopCount(segment_split_duration, chop_length) = Pow2(halvings)
    /\ segment_split_duration = (split_end - split_start) * (TPS \div SILERO_SR)
    /\ chop_index <= Pow2(halvings)
    /\ \A c \in 0..(chop_index - 1) :
         LET i == N - chop_index + 1 + c IN
           /\ i >= 1
           /\ Kind(i) = "chop"
           /\ split_audio[i].val.start_ms = Ms(ChopBase + c * chop_length)
           /\ split_audio[i].val.end_ms = Ms(ChopBase + (c + 1) * chop_length)
    /\ chop_index = Pow2(halvings) =>
         split_audio[N].val.end_ms = Ms(ChopBase + segment_split_duration)

\* all four chops of a run of more than twice upper_limit are stored
C9_Witness ==
  /\ pc = "chop"
  /\ halvings = 2
  /\ chop_index = 4
  /\ ChopBase > 0

\* ------------------------------------------------------------------- C10
\* C10: upper_limit / 2 < chop_length <= upper_limit; when
\* lower_limit <= upper_limit / 2 every stored segment is inside the band,
\* and a chop shorter than lower_limit needs lower_limit > upper_limit / 2.
C10_ChopLengthRange ==
  /\ pc = "chop" =>
       /\ upper_limit < 2 * chop_length
       /\ chop_length <= upper_limit
  /\ 2 * lower_limit <= upper_limit =>
       \A i \in 1..N :
         Ms(lower_limit) <= DurMs(i) /\ DurMs(i) <= Ms(upper_limit)
  /\ \A i \in 1..N :
       (Kind(i) = "chop" /\ DurMs(i) < Ms(lower_limit))
         => 2 * lower_limit > upper_limit

\* chops stored under the default band 2 s .. 8 s
C10_Witness ==
  /\ pc = "chop"
  /\ lower_limit = AUDIO_SEG_LOWER_LIMIT * TPS
  /\ upper_limit = AUDIO_SEG_UPPER_LIMIT * TPS
  /\ chop_index = 2
  /\ Kind(N) = "chop"

\* chops after two halvings under a band with lower_limit = upper_limit / 2
C10_WitnessEdge ==
  /\ pc = "chop"
  /\ 2 * lower_limit = upper_limit
  /\ halvings = 2
  /\ chop_index >= 1

\* -------------------------------------------------------------------- C7
\* C7: when the run has ended, by returning or by an exception,
\* temp_audio_in_memory.wav does not exist any more.
C7_TempReleased == pc \in {"done", "failed"} => temp_file = FALSE

\* what the code does guarantee: the file is gone after a normal return
TempRemovedOnReturn == pc = "done" => temp_file = FALSE

====
